---- MODULE Spec2Model ----
(***************************************************************************)
(* The ingest gRPC facade (fog/ingest/server/src/ingest_service.rs) over   *)
(* the shared IngestController.  The facade's handlers run on concurrent   *)
(* request workers; every call into the controller, the ledger or the      *)
(* recovery database is one atomic step, and a handler that makes several  *)
(* such calls is interleaved with the other workers between them.          *)
(* Beside it, the BIP39 entry points of libmobilecoin's C interface         *)
(* (libmobilecoin/src/bip39.rs), called with arguments the caller owns.    *)
(***************************************************************************)
EXTENDS Integers, Sequences, FiniteSets, TLC

\* ------------------------------------------------------------------ bounds
NumWorkers == 2     \* concurrent request-handling workers
MaxPeers   == 2     \* longest SetPeers request list
MaxBlock   == 2     \* largest block index in a reported range
MaxRanges  == 2     \* reports accepted before the model stops appending
MaxHeight  == 1     \* blocks the ledger grows to
MaxWindow  == 1     \* largest pubkey_expiry_window requested
MaxKey     == 1     \* ingress public keys the enclave draws from: 0..MaxKey
MaxEntropyId == 1   \* distinct entropies the mnemonics stand for: 0..MaxEntropyId

Workers == 1..NumWorkers
Keys    == 0..MaxKey
Windows == 0..MaxWindow
Blocks  == 0..MaxBlock

\* ------------------------------------------------------- peer addresses
\* A peer address string, by the parts the addressing grammar reads.
Host1 == [scheme |-> "node", host |-> "host1", port |-> 443]
Host2 == [scheme |-> "node", host |-> "host2", port |-> 443]
NotAnAddress == [scheme |-> "", host |-> "not-a-valid-address", port |-> 0]
Addresses == {Host1, Host2, NotAnAddress}

RECURSIVE SeqsUpTo(_, _)
SeqsUpTo(S, n) ==
    IF n = 0 THEN {<<>>}
    ELSE LET shorter == SeqsUpTo(S, n - 1)
         IN  shorter \cup {Append(s, x) : s \in {t \in shorter : Len(t) = n - 1}, x \in S}

PeerLists == SeqsUpTo(Addresses, MaxPeers)

\* IngestPeerUri::from_str: scheme, host and port must all be well formed.
from_str(x) ==
    IF x.scheme = "node" /\ x.host # "" /\ x.port \in 1..65535
    THEN [ok |-> TRUE,  uri |-> [host |-> x.host, port |-> x.port]]
    ELSE [ok |-> FALSE, uri |-> [host |-> "", port |-> 0]]

\* The address string a stored peer uri is reported as.
to_string(u) == [scheme |-> "node", host |-> u.host, port |-> u.port]

\* --------------------------------------------------------- rpc statuses
rpc_precondition_error == "FailedPrecondition"
rpc_database_err       == "Internal"
rpc_invalid_arg_error  == "InvalidArgument"
OK                     == "Ok"

VARIABLES
    \* IngestController (shared, behind Arc)
    state,                  \* "Idle" | "Active" | "Retiring"
    ingress_pubkey,         \* current ingress public key
    pubkey_expiry_window,   \* blocks a retired key stays valid
    peers,                  \* sequence of validated peer uris
    activation,             \* persisted activation records (ledger heights)
    missed,                 \* persisted missed block ranges, in append order
    \* LedgerDB
    ledger_blocks,          \* num_blocks() of the ledger
    \* request workers
    pc,                     \* "idle" | "activate" | "summary"
    req,                    \* the request a worker is serving
    num_blocks,             \* activate_impl's local: the block count it read
    \* the wire
    sent,                   \* the response send_result sent in the last step, if any
    got,                    \* the response held by each client that waits for one
    \* libmobilecoin: the arguments of a bip39 call and what it returned
    mnemonic,               \* the phrase passed in
    passphrase,             \* mc_bip39_get_seed's passphrase
    out_entropy,            \* FfiOptMutPtr<McMutableBuffer>: null, or the caller's buffer
    out_seed,               \* FfiMutPtr<McMutableBuffer>: the caller's buffer
    out_error,              \* FfiOptMutPtr<FfiOptOwnedPtr<McError>>: null, or the slot
    ret                     \* the value the call returned, once it has

ctl    == <<state, ingress_pubkey, pubkey_expiry_window, peers, activation, missed>>
worker == <<pc, req, num_blocks>>
ffi    == <<mnemonic, passphrase, out_entropy, out_seed, out_error, ret>>
vars   == <<state, ingress_pubkey, pubkey_expiry_window, peers, activation, missed,
            ledger_blocks, pc, req, num_blocks, sent, got,
            mnemonic, passphrase, out_entropy, out_seed, out_error, ret>>

\* ----------------------------------------------------------- controller
\* IngestController::get_ingest_summary: the projection every handler returns.
get_ingest_summary ==
    [state  |-> state,
     pubkey |-> ingress_pubkey,
     window |-> pubkey_expiry_window,
     peers  |-> [i \in 1..Len(peers) |-> to_string(peers[i])],
     activation |-> activation]

\* BlockRange::is_valid
is_valid(r) == r.end_block > r.start_block

\* The persistence layer lists missed ranges ascending by start.
RECURSIVE InsertByStart(_, _)
InsertByStart(s, r) ==
    IF s = <<>> THEN <<r>>
    ELSE IF r.start_block < Head(s).start_block THEN <<r>> \o s
    ELSE <<Head(s)>> \o InsertByStart(Tail(s), r)

RECURSIVE SortByStart(_)
SortByStart(s) ==
    IF s = <<>> THEN <<>>
    ELSE InsertByStart(SortByStart(SubSeq(s, 1, Len(s) - 1)), s[Len(s)])

\* Error of IngestController::activate(n): "none" on success.
activate_error(storage_fails) ==
    IF state # "Idle" THEN "precondition"
    ELSE IF storage_fails THEN "storage" ELSE "none"

\* IngestController::activate(n): one serialized mutation.
activate(n, storage_fails) ==
    IF activate_error(storage_fails) = "none"
    THEN /\ state' = "Active"
         /\ activation' = Append(activation, n)
         /\ UNCHANGED <<ingress_pubkey, pubkey_expiry_window, peers, missed>>
    ELSE UNCHANGED ctl

retire_error(storage_fails) ==
    IF state # "Active" THEN "precondition"
    ELSE IF storage_fails THEN "storage" ELSE "none"

\* retire() without the state check.
retire_unchecked(storage_fails) ==
    /\ state' = "Retiring"
    /\ UNCHANGED <<ingress_pubkey, pubkey_expiry_window, peers, activation, missed>>

\* IngestController::retire()
retire(storage_fails) ==
    IF retire_error(storage_fails) = "none"
    THEN /\ state' = "Retiring"
         /\ UNCHANGED <<ingress_pubkey, pubkey_expiry_window, peers, activation, missed>>
    ELSE UNCHANGED ctl

new_keys_error(enclave_fails, storage_fails) ==
    IF state # "Idle" THEN "precondition"
    ELSE IF enclave_fails THEN "enclave"
    ELSE IF storage_fails THEN "storage" ELSE "none"

\* new_keys() without the state check.
new_keys_unchecked(k, enclave_fails, storage_fails) ==
    IF ~enclave_fails /\ ~storage_fails
    THEN /\ ingress_pubkey' = k
         /\ UNCHANGED <<state, pubkey_expiry_window, peers, activation, missed>>
    ELSE UNCHANGED ctl

\* IngestController::new_keys(): the enclave hands back the fresh key k.
new_keys(k, enclave_fails, storage_fails) ==
    IF new_keys_error(enclave_fails, storage_fails) = "none"
    THEN /\ ingress_pubkey' = k
         /\ UNCHANGED <<state, pubkey_expiry_window, peers, activation, missed>>
    ELSE UNCHANGED ctl

set_pubkey_expiry_window_error(storage_fails) ==
    IF storage_fails THEN "storage" ELSE "none"

\* IngestController::set_pubkey_expiry_window(window)
set_pubkey_expiry_window(window, storage_fails) ==
    IF set_pubkey_expiry_window_error(storage_fails) = "none"
    THEN /\ pubkey_expiry_window' = window
         /\ UNCHANGED <<state, ingress_pubkey, peers, activation, missed>>
    ELSE UNCHANGED ctl

\* IngestController::set_peers(peers): infallible, replaces the whole list.
set_peers(new_peers) ==
    /\ peers' = new_peers
    /\ UNCHANGED <<state, ingress_pubkey, pubkey_expiry_window, activation, missed>>

report_missed_block_range_error(storage_fails) ==
    IF storage_fails THEN "storage" ELSE "none"

\* IngestController::report_missed_block_range(&range)
report_missed_block_range(r, storage_fails) ==
    IF report_missed_block_range_error(storage_fails) = "none"
    THEN /\ missed' = Append(missed, r)
         /\ UNCHANGED <<state, ingress_pubkey, pubkey_expiry_window, peers, activation>>
    ELSE UNCHANGED ctl

\* IngestController::get_missed_block_ranges()
get_missed_block_ranges == SortByStart(missed)

\* ------------------------------------------------------------ responses
NoReq == [op |-> "none", arg |-> <<>>]

Nothing ==
    [w |-> 0, op |-> "none", arg |-> <<>>, code |-> "none", cause |-> "none",
     summary |-> <<>>, ranges |-> <<>>]

\* Err(status, err): the handler's Err(RpcStatus) built from the failure err.
Err(code, cause) == [code |-> code, cause |-> cause, summary |-> <<>>, ranges |-> <<>>]

\* Ok(..): the handler's Ok with the summary or the range list it carries, if any.
Ok(summary, ranges) == [code |-> OK, cause |-> "none", summary |-> summary, ranges |-> ranges]

\* A worker takes a request off the wire.  A client that waits for its
\* response sends a single request.
Accept(w) ==
    /\ pc[w] = "idle"
    /\ w \in DOMAIN got => got[w] = Nothing

\* The handler of request op(arg) goes on to its next call; nothing is sent yet.
Goto(w, label, op, arg) ==
    /\ pc' = [pc EXCEPT ![w] = label]
    /\ req' = [req EXCEPT ![w] = [op |-> op, arg |-> arg]]
    /\ sent' = Nothing
    /\ UNCHANGED <<got, ffi>>

\* send_result (lines 181-270): the handler's Result for request op(arg) goes
\* out and the worker is free.
send_result(w, op, arg, result) ==
    /\ pc' = [pc EXCEPT ![w] = "idle"]
    /\ req' = [req EXCEPT ![w] = NoReq]
    /\ sent' = [w |-> w, op |-> op, arg |-> arg, code |-> result.code,
                cause |-> result.cause, summary |-> result.summary,
                ranges |-> result.ranges]
    /\ got' = IF w \in DOMAIN got THEN [got EXCEPT ![w] = sent'] ELSE got
    /\ UNCHANGED ffi

\* -------------------------------------------------------------- handlers
\* get_status_impl refusing a node that is no longer serving.
get_status_impl_refuses_retiring(w) ==
    /\ Accept(w)
    /\ IF state = "Retiring"
       THEN send_result(w, "GetStatus", <<>>, Err(rpc_precondition_error, "precondition"))
       ELSE send_result(w, "GetStatus", <<>>, Ok(<<get_ingest_summary>>, <<>>))
    /\ UNCHANGED <<ctl, ledger_blocks, num_blocks>>

\* get_status_impl
get_status_impl(w) ==
    /\ Accept(w)
    /\ send_result(w, "GetStatus", <<>>, Ok(<<get_ingest_summary>>, <<>>))
    /\ UNCHANGED <<ctl, ledger_blocks, num_blocks>>

RECURSIVE ValidUris(_)
ValidUris(L) ==
    IF L = <<>> THEN <<>>
    ELSE IF from_str(Head(L)).ok THEN <<from_str(Head(L)).uri>> \o ValidUris(Tail(L))
    ELSE ValidUris(Tail(L))

\* The collect with filter_map in place of map: malformed addresses are skipped.
peers_collect_skips_invalid(L) == [ok |-> TRUE, peers |-> ValidUris(L)]

RECURSIVE Dedup(_)
Dedup(s) ==
    IF s = <<>> THEN <<>>
    ELSE LET rest == Dedup(SubSeq(s, 1, Len(s) - 1))
         IN  IF \E i \in 1..Len(rest) : rest[i] = s[Len(s)] THEN rest
             ELSE Append(rest, s[Len(s)])

\* The collect into a set-like container: a repeated address is kept once.
peers_collect_dedups(L) ==
    IF \A i \in 1..Len(L) : from_str(L[i]).ok
    THEN [ok |-> TRUE,  peers |-> Dedup([i \in 1..Len(L) |-> from_str(L[i]).uri])]
    ELSE [ok |-> FALSE, peers |-> <<>>]

\* Lines 91-96: every address is parsed; the first failure fails the whole collect.
peers_collect(L) ==
    IF \A i \in 1..Len(L) : from_str(L[i]).ok
    THEN [ok |-> TRUE,  peers |-> [i \in 1..Len(L) |-> from_str(L[i]).uri]]
    ELSE [ok |-> FALSE, peers |-> <<>>]

\* The copy with the two setters crossed.
proto_ranges_swapped(ranges) ==
    [i \in 1..Len(ranges) |->
        [start_block |-> ranges[i].end_block, end_block |-> ranges[i].start_block]]

\* Lines 157-168: each stored range is copied into a proto BlockRange.
proto_ranges(ranges) ==
    [i \in 1..Len(ranges) |->
        [start_block |-> ranges[i].start_block, end_block |-> ranges[i].end_block]]

\* The trailing Ok(self.controller.get_ingest_summary()) of new_keys_impl,
\* set_pubkey_expiry_window_impl, set_peers_impl and activate_impl: a second
\* call into the controller, after the mutation has returned.
return_summary(w) ==
    /\ pc[w] = "summary"
    /\ send_result(w, req[w].op, req[w].arg, Ok(<<get_ingest_summary>>, <<>>))
    /\ UNCHANGED <<ctl, ledger_blocks, num_blocks>>

\* new_keys_impl with the error mapped as retire_impl maps it.
new_keys_impl_database_err(w) ==
    /\ Accept(w)
    /\ \E k \in Keys \ {ingress_pubkey}, enclave_fails \in BOOLEAN, storage_fails \in BOOLEAN :
          LET err == new_keys_error(enclave_fails, storage_fails)
          IN  /\ new_keys(k, enclave_fails, storage_fails)
              /\ IF err = "none"
                 THEN Goto(w, "summary", "NewKeys", <<>>)
                 ELSE send_result(w, "NewKeys", <<>>, Err(rpc_database_err, err))
    /\ UNCHANGED <<ledger_blocks, num_blocks>>

\* new_keys_impl without the `?` on the controller's result: the summary is
\* returned whatever the controller answered.
new_keys_impl_ignores_error(w) ==
    /\ Accept(w)
    /\ \E k \in Keys \ {ingress_pubkey}, enclave_fails \in BOOLEAN, storage_fails \in BOOLEAN :
          /\ new_keys(k, enclave_fails, storage_fails)
          /\ Goto(w, "summary", "NewKeys", <<>>)
    /\ UNCHANGED <<ledger_blocks, num_blocks>>

\* new_keys_impl, up to the controller call
new_keys_impl(w) ==
    /\ Accept(w)
    /\ \E k \in Keys \ {ingress_pubkey}, enclave_fails \in BOOLEAN, storage_fails \in BOOLEAN :
          LET err == new_keys_error(enclave_fails, storage_fails)
          IN  /\ new_keys(k, enclave_fails, storage_fails)
              /\ IF err = "none"
                 THEN Goto(w, "summary", "NewKeys", <<>>)
                 ELSE send_result(w, "NewKeys", <<>>, Err(rpc_precondition_error, err))
    /\ UNCHANGED <<ledger_blocks, num_blocks>>

\* set_pubkey_expiry_window_impl guarded as the key rotation is: refused
\* unless the node is Idle.
set_pubkey_expiry_window_impl_idle_only(w, Wins) ==
    \E window \in Wins, storage_fails \in BOOLEAN :
        LET err == IF state # "Idle" THEN "precondition"
                   ELSE set_pubkey_expiry_window_error(storage_fails)
        IN  /\ Accept(w)
            /\ IF err = "precondition" THEN UNCHANGED ctl
               ELSE set_pubkey_expiry_window(window, storage_fails)
            /\ IF err = "none"
               THEN Goto(w, "summary", "SetPubkeyExpiryWindow", <<window>>)
               ELSE send_result(w, "SetPubkeyExpiryWindow", <<window>>,
                        Err(rpc_precondition_error, err))
            /\ UNCHANGED <<ledger_blocks, num_blocks>>

\* set_pubkey_expiry_window_impl, up to the controller call
set_pubkey_expiry_window_impl(w, Wins) ==
    \E window \in Wins, storage_fails \in BOOLEAN :
        LET err == set_pubkey_expiry_window_error(storage_fails)
        IN  /\ Accept(w)
            /\ set_pubkey_expiry_window(window, storage_fails)
            /\ IF err = "none"
               THEN Goto(w, "summary", "SetPubkeyExpiryWindow", <<window>>)
               ELSE send_result(w, "SetPubkeyExpiryWindow", <<window>>,
                        Err(rpc_precondition_error, err))
            /\ UNCHANGED <<ledger_blocks, num_blocks>>

\* set_peers_impl, up to the controller call
set_peers_impl(w, Lists) ==
    \E L \in Lists :
        LET parsed == peers_collect(L)
        IN  /\ Accept(w)
            /\ IF parsed.ok
               THEN /\ set_peers(parsed.peers)
                    /\ Goto(w, "summary", "SetPeers", L)
               ELSE /\ send_result(w, "SetPeers", L, Err(rpc_invalid_arg_error, "parse"))
                    /\ UNCHANGED ctl
            /\ UNCHANGED <<ledger_blocks, num_blocks>>

\* activate_impl looking at the ledger's answer only after the controller call:
\* the controller is called with a default count and the ledger error is
\* reported afterwards.
activate_read_checks_late(w) ==
    /\ Accept(w)
    /\ \E ledger_fails \in BOOLEAN :
          IF ledger_fails
          THEN /\ activate(0, FALSE)
               /\ send_result(w, "Activate", <<>>, Err(rpc_database_err, "ledger"))
               /\ UNCHANGED num_blocks
          ELSE /\ num_blocks' = [num_blocks EXCEPT ![w] = ledger_blocks]
               /\ Goto(w, "activate", "Activate", <<>>)
               /\ UNCHANGED ctl
    /\ UNCHANGED ledger_blocks

\* activate_impl taking the index of the next block for the block count.
activate_read_counts_ahead(w) ==
    /\ Accept(w)
    /\ \E ledger_fails \in BOOLEAN :
          IF ledger_fails
          THEN send_result(w, "Activate", <<>>,
                   Err(rpc_database_err, "ledger")) /\ UNCHANGED num_blocks
          ELSE /\ num_blocks' = [num_blocks EXCEPT ![w] = ledger_blocks + 1]
               /\ Goto(w, "activate", "Activate", <<>>)
    /\ UNCHANGED <<ctl, ledger_blocks>>

\* activate_impl, lines 107-109: the argument of controller.activate is
\* evaluated first, and a ledger error returns before the controller is called.
activate_read(w) ==
    /\ Accept(w)
    /\ \E ledger_fails \in BOOLEAN :
          IF ledger_fails
          THEN send_result(w, "Activate", <<>>,
                   Err(rpc_database_err, "ledger")) /\ UNCHANGED num_blocks
          ELSE /\ num_blocks' = [num_blocks EXCEPT ![w] = ledger_blocks]
               /\ Goto(w, "activate", "Activate", <<>>)
    /\ UNCHANGED <<ctl, ledger_blocks>>

\* activate_impl without the `?` on the controller's result: the summary is
\* returned whatever the controller answered.
activate_impl_ignores_error(w) ==
    /\ pc[w] = "activate"
    /\ \E storage_fails \in BOOLEAN :
          /\ activate(num_blocks[w], storage_fails)
          /\ Goto(w, "summary", req[w].op, req[w].arg)
    /\ num_blocks' = [num_blocks EXCEPT ![w] = 0]
    /\ UNCHANGED ledger_blocks

\* activate_impl with the controller's error mapped as the ledger's is.
activate_impl_database_err(w) ==
    /\ pc[w] = "activate"
    /\ \E storage_fails \in BOOLEAN :
          LET err == activate_error(storage_fails)
          IN  /\ activate(num_blocks[w], storage_fails)
              /\ IF err = "none"
                 THEN Goto(w, "summary", req[w].op, req[w].arg)
                 ELSE send_result(w, req[w].op, req[w].arg, Err(rpc_database_err, err))
    /\ num_blocks' = [num_blocks EXCEPT ![w] = 0]
    /\ UNCHANGED ledger_blocks

\* activate_impl asking the ledger again at the controller call instead of
\* passing the count it read when the request came in.
activate_impl_rereads_ledger(w) ==
    /\ pc[w] = "activate"
    /\ \E storage_fails \in BOOLEAN :
          LET err == activate_error(storage_fails)
          IN  /\ activate(ledger_blocks, storage_fails)
              /\ IF err = "none"
                 THEN Goto(w, "summary", req[w].op, req[w].arg)
                 ELSE send_result(w, req[w].op, req[w].arg, Err(rpc_precondition_error, err))
    /\ num_blocks' = [num_blocks EXCEPT ![w] = 0]
    /\ UNCHANGED ledger_blocks

\* activate_impl, lines 105-111: the controller call with the count read before.
activate_impl(w) ==
    /\ pc[w] = "activate"
    /\ \E storage_fails \in BOOLEAN :
          LET err == activate_error(storage_fails)
          IN  /\ activate(num_blocks[w], storage_fails)
              /\ IF err = "none"
                 THEN Goto(w, "summary", req[w].op, req[w].arg)
                 ELSE send_result(w, req[w].op, req[w].arg, Err(rpc_precondition_error, err))
    /\ num_blocks' = [num_blocks EXCEPT ![w] = 0]
    /\ UNCHANGED ledger_blocks

\* retire_impl: the controller's own return value is the summary sent back.
retire_impl(w) ==
    /\ Accept(w)
    /\ \E storage_fails \in BOOLEAN :
          LET err == retire_error(storage_fails)
          IN  /\ retire(storage_fails)
              /\ IF err = "none"
                 THEN send_result(w, "Retire", <<>>, Ok(<<get_ingest_summary'>>, <<>>))
                 ELSE send_result(w, "Retire", <<>>, Err(rpc_database_err, err))
    /\ UNCHANGED <<ledger_blocks, num_blocks>>

\* report_missed_block_range_impl without the is_valid check.
report_missed_block_range_impl_unchecked(w, Idx, cap) ==
    \E start_index \in Idx, end_index \in Idx, storage_fails \in BOOLEAN :
        LET block_range == [start_block |-> start_index, end_block |-> end_index]
            err == report_missed_block_range_error(storage_fails)
        IN  /\ Accept(w)
            /\ Len(missed) < cap
            /\ report_missed_block_range(block_range, storage_fails)
            /\ IF err = "none"
               THEN send_result(w, "ReportMissedBlockRange", <<start_index, end_index>>,
                        Ok(<<>>, <<>>))
               ELSE send_result(w, "ReportMissedBlockRange", <<start_index, end_index>>,
                        Err(rpc_database_err, err))
            /\ UNCHANGED <<ledger_blocks, num_blocks>>

\* report_missed_block_range_impl
report_missed_block_range_impl(w, Idx, cap) ==
    \E start_index \in Idx, end_index \in Idx, storage_fails \in BOOLEAN :
        LET block_range == [start_block |-> start_index, end_block |-> end_index]
            err == report_missed_block_range_error(storage_fails)
        IN  /\ Accept(w)
            /\ IF ~is_valid(block_range)
               THEN /\ send_result(w, "ReportMissedBlockRange", <<start_index, end_index>>,
                           Err(rpc_invalid_arg_error, "range"))
                    /\ UNCHANGED ctl
               ELSE /\ Len(missed) < cap
                    /\ report_missed_block_range(block_range, storage_fails)
                    /\ IF err = "none"
                       THEN send_result(w, "ReportMissedBlockRange", <<start_index, end_index>>,
                                Ok(<<>>, <<>>))
                       ELSE send_result(w, "ReportMissedBlockRange", <<start_index, end_index>>,
                                Err(rpc_database_err, err))
            /\ UNCHANGED <<ledger_blocks, num_blocks>>

\* get_missed_block_ranges_impl
get_missed_block_ranges_impl(w) ==
    /\ Accept(w)
    /\ \E storage_fails \in BOOLEAN :
          IF storage_fails
          THEN send_result(w, "GetMissedBlockRanges", <<>>, Err(rpc_database_err, "storage"))
          ELSE send_result(w, "GetMissedBlockRanges", <<>>,
                   Ok(<<>>, <<proto_ranges(get_missed_block_ranges)>>))
    /\ UNCHANGED <<ctl, ledger_blocks, num_blocks>>

\* The ledger grows underneath the service.
ledger_append ==
    /\ ledger_blocks < MaxHeight
    /\ ledger_blocks' = ledger_blocks + 1
    /\ sent' = Nothing
    /\ UNCHANGED <<ctl, worker, got, ffi>>

\* ------------------------------------------------- libmobilecoin: bip39
\* A phrase, by what Mnemonic::from_phrase reads of it: the number of words,
\* whether every word is in the English word list, whether the checksum bits
\* match, and which entropy the words encode.
WordCounts == {0, 11, 12, 24}
Phrases ==
    [words : WordCounts, in_wordlist : BOOLEAN, checksum_ok : BOOLEAN,
     id : 0..MaxEntropyId]
Passphrases == {"", "TREZOR"}

\* Line 61: the length of a seed, seed.as_bytes().len().
SeedLen == 64

\* A caller's buffer: a null pointer, or bytes the caller filled beforehand.
NULL == [null |-> TRUE, bytes |-> <<>>]
Buffer(len, fill) == [null |-> FALSE, bytes |-> [i \in 1..len |-> fill]]
Fills == {0, 255}
\* Line 11: out_entropy is null or long enough for any entropy (32 bytes).
EntropyBuffers == {NULL} \cup {Buffer(len, fill) : len \in {32, 40}, fill \in Fills}
\* Line 61: out_seed is not null and at least 64 bytes long.
SeedBuffers == {Buffer(len, fill) : len \in {SeedLen, SeedLen + 8}, fill \in Fills}
\* out_error: null, or a slot that holds no error yet.
ErrorSlots == {[null |-> TRUE, error |-> "none"], [null |-> FALSE, error |-> "none"]}

\* Mnemonic::from_phrase(&mnemonic, Language::English): 12 to 24 words in
\* steps of 3, all of the word list, with matching checksum.
from_phrase(phrase) ==
    IF ~phrase.in_wordlist THEN [ok |-> FALSE, err |-> "invalid word in phrase"]
    ELSE IF phrase.words \notin {12, 15, 18, 21, 24}
         THEN [ok |-> FALSE, err |-> "invalid number of words in phrase"]
    ELSE IF ~phrase.checksum_ok THEN [ok |-> FALSE, err |-> "invalid checksum"]
    ELSE [ok |-> TRUE, err |-> "none"]

\* mnemonic.entropy(): 4 bytes for every 3 words.
entropy(phrase) ==
    [i \in 1..((phrase.words * 4) \div 3) |-> (64 * phrase.id + i) % 256]

\* Seed::new(&mnemonic, &passphrase): 64 bytes derived from both.
Seed_new(phrase, pass) ==
    [i \in 1..SeedLen |->
        (64 * phrase.id + phrase.words + (IF pass = "" THEN 0 ELSE 1) + i) % 256]

\* LibMcError::InvalidInput(format!("Invalid mnemonic: {}", err)), lines 26, 78
InvalidInput(err) == "InvalidInput"

\* as_slice_mut_of_len(src.len()) and copy_from_slice(src): the first bytes of
\* the buffer are overwritten, the rest is left alone.
copy_from_slice(buffer, src) ==
    [buffer EXCEPT !.bytes =
        [i \in 1..Len(buffer.bytes) |-> IF i <= Len(src) THEN src[i] ELSE buffer.bytes[i]]]

\* ffi_boundary_with_error(out_error, ..) on Err(error): the error goes into
\* the caller's slot, if there is one.
ffi_boundary_with_error(error) ==
    out_error' = IF out_error.null THEN out_error ELSE [out_error EXCEPT !.error = error]

NotCalled == [fn |-> "none", ok |-> FALSE, len |-> 0]

\* No bip39 call is made.
NoCall ==
    /\ mnemonic = [words |-> 0, in_wordlist |-> TRUE, checksum_ok |-> TRUE, id |-> 0]
    /\ passphrase = ""
    /\ out_entropy = NULL
    /\ out_seed = Buffer(SeedLen, 0)
    /\ out_error = [null |-> TRUE, error |-> "none"]
    /\ ret = NotCalled

\* mc_bip39_entropy_from_mnemonic, lines 17-40
mc_bip39_entropy_from_mnemonic ==
    /\ ret = NotCalled
    /\ LET parsed == from_phrase(mnemonic)
       IN  IF ~parsed.ok
           THEN /\ ffi_boundary_with_error(InvalidInput(parsed.err))
                /\ ret' = [fn |-> "mc_bip39_entropy_from_mnemonic", ok |-> FALSE, len |-> 0]
                /\ UNCHANGED out_entropy
           ELSE /\ out_entropy' = IF out_entropy.null THEN out_entropy
                                  ELSE copy_from_slice(out_entropy, entropy(mnemonic))
                /\ ret' = [fn |-> "mc_bip39_entropy_from_mnemonic", ok |-> TRUE,
                           len |-> Len(entropy(mnemonic))]
                /\ UNCHANGED out_error
    /\ UNCHANGED <<mnemonic, passphrase, out_seed>>
    /\ UNCHANGED <<ctl, ledger_blocks, worker, sent, got>>

\* mc_bip39_get_seed clearing the caller's buffer before it looks at the phrase.
mc_bip39_get_seed_clears_first ==
    /\ ret = NotCalled
    /\ LET parsed == from_phrase(mnemonic)
           cleared == [out_seed EXCEPT !.bytes = [i \in 1..Len(out_seed.bytes) |-> 0]]
       IN  IF ~parsed.ok
           THEN /\ ffi_boundary_with_error(InvalidInput(parsed.err))
                /\ ret' = [fn |-> "mc_bip39_get_seed", ok |-> FALSE, len |-> 0]
                /\ out_seed' = cleared
           ELSE /\ out_seed' = copy_from_slice(cleared, Seed_new(mnemonic, passphrase))
                /\ ret' = [fn |-> "mc_bip39_get_seed", ok |-> TRUE, len |-> 0]
                /\ UNCHANGED out_error
    /\ UNCHANGED <<mnemonic, passphrase, out_entropy>>
    /\ UNCHANGED <<ctl, ledger_blocks, worker, sent, got>>

\* mc_bip39_get_seed, lines 67-90
mc_bip39_get_seed ==
    /\ ret = NotCalled
    /\ LET parsed == from_phrase(mnemonic)
       IN  IF ~parsed.ok
           THEN /\ ffi_boundary_with_error(InvalidInput(parsed.err))
                /\ ret' = [fn |-> "mc_bip39_get_seed", ok |-> FALSE, len |-> 0]
                /\ UNCHANGED out_seed
           ELSE /\ out_seed' = copy_from_slice(out_seed, Seed_new(mnemonic, passphrase))
                /\ ret' = [fn |-> "mc_bip39_get_seed", ok |-> TRUE, len |-> 0]
                /\ UNCHANGED out_error
    /\ UNCHANGED <<mnemonic, passphrase, out_entropy>>
    /\ UNCHANGED <<ctl, ledger_blocks, worker, sent, got>>

Init ==
    /\ state = "Idle"
    /\ ingress_pubkey = 0
    /\ pubkey_expiry_window = 0
    /\ peers = <<>>
    /\ activation = <<>>
    /\ missed = <<>>
    /\ ledger_blocks = 0
    /\ pc = [w \in Workers |-> "idle"]
    /\ req = [w \in Workers |-> NoReq]
    /\ num_blocks = [w \in Workers |-> 0]
    /\ sent = Nothing
    /\ got = <<>>
    /\ NoCall

\* One step of the service: a worker of W runs a handler's next call, the
\* requests drawn from the given input sets.
Step(W, Lists, Idx, cap, Wins) ==
    \/ \E w \in W : get_status_impl(w)
    \/ \E w \in W : new_keys_impl(w)
    \/ \E w \in W : set_pubkey_expiry_window_impl(w, Wins)
    \/ \E w \in W : set_peers_impl(w, Lists)
    \/ \E w \in W : activate_read(w)
    \/ \E w \in W : activate_impl(w)
    \/ \E w \in W : retire_impl(w)
    \/ \E w \in W : report_missed_block_range_impl(w, Idx, cap)
    \/ \E w \in W : get_missed_block_ranges_impl(w)
    \/ \E w \in W : return_summary(w)

\* All eight operations on concurrent workers over a growing ledger; the peer
\* list stays empty, no range is valid and the expiry window stays 0.
Next ==
    \/ Step(Workers, {<<>>, <<NotAnAddress>>}, {0}, 0, {0})
    \/ ledger_append

Spec == Init /\ [][Next]_vars

\* All eight operations, one request at a time, every peer list up to
\* MaxPeers; no range is valid and the ledger stands still.
NextPeers == Step({1}, PeerLists, {0}, 0, {0})

SpecPeers == Init /\ [][NextPeers]_vars

\* All eight operations, one request at a time, every block range up to
\* MaxBlock; the peer list stays empty and the ledger stands still.
NextRanges == Step({1}, {<<>>, <<NotAnAddress>>}, Blocks, MaxRanges, {0})

SpecRanges == Init /\ [][NextRanges]_vars

\* All eight operations, one request at a time, every expiry window up to
\* MaxWindow; the peer list stays empty, no range is valid and the ledger
\* stands still.
NextWindow == Step({1}, {<<>>, <<NotAnAddress>>}, {0}, 0, Windows)

SpecWindow == Init /\ [][NextWindow]_vars

\* Every client sends one Activate to a fresh controller and waits for the answer.
InitTwoActivates ==
    /\ state = "Idle"
    /\ ingress_pubkey = 0
    /\ pubkey_expiry_window = 0
    /\ peers = <<>>
    /\ activation = <<>>
    /\ missed = <<>>
    /\ ledger_blocks = 0
    /\ pc = [w \in Workers |-> "idle"]
    /\ req = [w \in Workers |-> NoReq]
    /\ num_blocks = [w \in Workers |-> 0]
    /\ sent = Nothing
    /\ got = [w \in Workers |-> Nothing]
    /\ NoCall

NextTwoActivates ==
    \/ \E w \in Workers : activate_read(w)
    \/ \E w \in Workers : activate_impl(w)
    \/ \E w \in Workers : return_summary(w)
    \/ ledger_append

SpecTwoActivates == InitTwoActivates /\ [][NextTwoActivates]_vars

\* One call of a bip39 entry point, its arguments drawn from the phrases,
\* passphrases and caller buffers above; the ingest service is not running.
InitBip39 ==
    /\ state = "Idle"
    /\ ingress_pubkey = 0
    /\ pubkey_expiry_window = 0
    /\ peers = <<>>
    /\ activation = <<>>
    /\ missed = <<>>
    /\ ledger_blocks = 0
    /\ pc = [w \in Workers |-> "idle"]
    /\ req = [w \in Workers |-> NoReq]
    /\ num_blocks = [w \in Workers |-> 0]
    /\ sent = Nothing
    /\ got = <<>>
    /\ mnemonic \in Phrases
    /\ passphrase \in Passphrases
    /\ out_entropy \in EntropyBuffers
    /\ out_seed \in SeedBuffers
    /\ out_error \in ErrorSlots
    /\ ret = NotCalled

NextBip39 ==
    \/ mc_bip39_entropy_from_mnemonic
    \/ mc_bip39_get_seed

SpecBip39 == InitBip39 /\ [][NextBip39]_vars
\* ---------------------------------------------------------------- claims
\* Worker w takes the first step of a handler for request `op` in this step.
Begins(w, op) ==
    /\ pc[w] = "idle"
    /\ \/ pc'[w] # "idle" /\ req'[w].op = op
       \/ sent'.w = w /\ sent'.op = op

\* The argument of the request whose handler worker w begins in this step.
Arg(w) == IF pc'[w] # "idle" THEN req'[w].arg ELSE sent'.arg

\* Worker w makes activate_impl's controller call in this step.
CallsActivate(w) == pc[w] = "activate" /\ pc'[w] # "activate"

Succeeded == {w \in DOMAIN got : got[w].code = "Ok"}

\* The request of client w met no failing collaborator (storage, ledger, enclave).
NoFault(w) == got[w].cause \in {"none", "precondition"}

\* C1: when the clients' Activate requests race against a fresh controller, at
\* most one activation record is ever persisted and at most one client is told
\* it succeeded; once every client has its answer and no collaborator failed,
\* exactly one has success, every other has FailedPrecondition, and exactly one
\* activation record is stored.
C1_ExactlyOneActivateWins ==
    /\ Len(activation) <= 1
    /\ Cardinality(Succeeded) <= 1
    /\ (\A w \in DOMAIN got : got[w] # Nothing /\ NoFault(w)) =>
          /\ Cardinality(Succeeded) = 1
          /\ \A w \in DOMAIN got \ Succeeded : got[w].code = "FailedPrecondition"
          /\ Len(activation) = 1

C1_Witness ==
    \E w1 \in DOMAIN got, w2 \in DOMAIN got :
        /\ got[w1].op = "Activate" /\ got[w1].code = "Ok"
        /\ got[w2].op = "Activate" /\ got[w2].code = "FailedPrecondition"
        /\ got[w2].cause = "precondition"
        /\ Len(activation) = 1

\* C2: no step moves the node state other than Idle -> Active or
\* Active -> Retiring: nothing returns to Idle, nothing leaves Retiring, and
\* Idle never goes straight to Retiring.
C2_OneDirectional ==
    [][/\ state = "Idle" => state' \in {"Idle", "Active"}
       /\ state = "Active" => state' \in {"Active", "Retiring"}
       /\ state = "Retiring" => state' = "Retiring"]_vars

C2_Witness == state = "Retiring" /\ sent.op = "Retire" /\ sent.code = "Ok"

\* C3: the controller call of an Activate succeeds only from Idle and then
\* makes the node Active; made when the node is Active or Retiring it is
\* answered FailedPrecondition and the summary is what it was before the call;
\* and success is only ever sent for an Activate whose controller call succeeded.
C3_ActivateOnlyFromIdle ==
    [][/\ \A w \in Workers : CallsActivate(w) =>
            /\ pc'[w] = "summary" => state = "Idle" /\ state' = "Active"
            /\ state # "Idle" =>
                  /\ sent'.w = w /\ sent'.op = "Activate"
                  /\ sent'.code = "FailedPrecondition"
                  /\ get_ingest_summary' = get_ingest_summary
       /\ sent'.op = "Activate" /\ sent'.code = "Ok" => pc[sent'.w] = "summary"]_vars

C3_Witness ==
    /\ sent.op = "Activate" /\ sent.code = "FailedPrecondition"
    /\ sent.cause = "precondition"
    /\ state = "Retiring"

\* C4: Retire is legal only from Active: called when the node is Active (and
\* storage does not fail) it is answered with success and the node becomes
\* Retiring; called when the node is Idle or Retiring it is answered
\* FailedPrecondition and the node state is unchanged.
C4_RetireOnlyFromActive ==
    [][\A w \in Workers : Begins(w, "Retire") =>
          /\ state = "Active" /\ sent'.cause # "storage" =>
                sent'.code = "Ok" /\ state' = "Retiring"
          /\ state # "Active" =>
                sent'.code = "FailedPrecondition" /\ state' = state]_vars

\* A malformed address: IngestPeerUri::from_str rejects it.
Malformed(L) == \E i \in 1..Len(L) : ~from_str(L[i]).ok

\* C5: a SetPeers request with a malformed address at any position is answered
\* InvalidArgument at once, and nothing the controller holds changes: the
\* stored peer set is exactly the one before the call.
C5_SetPeersAllOrNothing ==
    [][\A w \in Workers : Begins(w, "SetPeers") /\ Malformed(Arg(w)) =>
          /\ sent'.w = w /\ sent'.code = "InvalidArgument"
          /\ pc'[w] = "idle"
          /\ peers' = peers
          /\ UNCHANGED ctl]_vars

C5_Witness ==
    /\ sent.op = "SetPeers" /\ sent.code = "InvalidArgument"
    /\ sent.arg = <<Host1, NotAnAddress>>
    /\ get_ingest_summary.peers = <<Host2>>

\* C6: a SetPeers(L) that passes validation leaves the summary's peer set
\* exactly L (same addresses, same order, repeats kept), and no step other than
\* a SetPeers changes the peer set, so GetStatus reports L until the next one.
C6_SetPeersFullReplace ==
    [][/\ \A w \in Workers : Begins(w, "SetPeers") /\ pc'[w] = "summary" =>
             get_ingest_summary'.peers = Arg(w)
       /\ peers' # peers => \E w \in Workers : Begins(w, "SetPeers")
       /\ sent'.op = "GetStatus" =>
             sent'.summary[1].peers = [i \in 1..Len(peers') |-> to_string(peers'[i])]]_vars

C6_Witness ==
    /\ sent.op = "GetStatus"
    /\ sent.summary[1].peers = <<Host2, Host2>>

\* C7: ReportMissedBlockRange(start, end) with end <= start is answered
\* InvalidArgument and the stored ranges are untouched; with end > start the
\* range reaches the controller: it is appended and the call succeeds, unless
\* storage fails, and then the answer is the database error and nothing is stored.
C7_ReportValidatesRange ==
    [][\A w \in Workers : Begins(w, "ReportMissedBlockRange") =>
          LET s == Arg(w)[1]
              e == Arg(w)[2]
          IN  /\ sent'.w = w
              /\ e <= s => sent'.code = "InvalidArgument" /\ UNCHANGED ctl
              /\ e > s =>
                    \/ /\ sent'.code = "Ok"
                       /\ missed' = Append(missed, [start_block |-> s, end_block |-> e])
                    \/ /\ sent'.code = "Internal" /\ sent'.cause = "storage"
                       /\ missed' = missed]_vars

C7_Witness ==
    /\ sent.op = "ReportMissedBlockRange" /\ sent.code = "InvalidArgument"
    /\ sent.arg = <<2, 1>>
    /\ Len(missed) = 1

\* How often range r occurs in the sequence s.
Count(s, r) == Cardinality({i \in 1..Len(s) : s[i] = r})

\* C8: the stored missed ranges only grow, one accepted range at a time; every
\* successful GetMissedBlockRanges returns each stored range as it was reported,
\* neither more nor fewer, and every range it returns has end > start.
C8_MissedRangesAppendOnly ==
    [][/\ \/ missed' = missed
          \/ \E w \in Workers :
                /\ Begins(w, "ReportMissedBlockRange")
                /\ sent'.code = "Ok"
                /\ missed' = Append(missed, [start_block |-> Arg(w)[1],
                                             end_block |-> Arg(w)[2]])
       /\ sent'.op = "GetMissedBlockRanges" /\ sent'.code = "Ok" =>
             LET got_ranges == sent'.ranges[1]
             IN  /\ Len(got_ranges) = Len(missed')
                 /\ \A i \in 1..Len(missed') :
                       Count(got_ranges, missed'[i]) = Count(missed', missed'[i])
                 /\ \A i \in 1..Len(got_ranges) :
                       got_ranges[i].end_block > got_ranges[i].start_block]_vars

C8_Witness ==
    /\ sent.op = "GetMissedBlockRanges" /\ sent.code = "Ok"
    /\ missed = <<[start_block |-> 1, end_block |-> 2],
                  [start_block |-> 0, end_block |-> 2]>>
    /\ sent.ranges[1] = <<[start_block |-> 0, end_block |-> 2],
                          [start_block |-> 1, end_block |-> 2]>>
    /\ state = "Retiring"

\* C9: GetStatus is answered with success and a summary in every lifecycle
\* state, and the call changes nothing: node state, key, expiry window, peer
\* set, activation record and missed ranges are what they were.
C9_GetStatusPure ==
    [][\A w \in Workers : Begins(w, "GetStatus") =>
          /\ sent'.w = w /\ sent'.code = "Ok"
          /\ sent'.summary = <<get_ingest_summary>>
          /\ state' = state
          /\ ingress_pubkey' = ingress_pubkey
          /\ pubkey_expiry_window' = pubkey_expiry_window
          /\ peers' = peers
          /\ activation' = activation
          /\ missed' = missed]_vars

C9_Witness ==
    /\ sent.op = "GetStatus" /\ sent.code = "Ok"
    /\ sent.summary[1].state = "Retiring"
    /\ missed # <<>>

\* C10: NewKeys succeeds only when the node is Idle; called when the node is
\* Active or Retiring it is answered FailedPrecondition and the stored ingress
\* public key is unchanged.
C10_NewKeysOnlyFromIdle ==
    [][\A w \in Workers : Begins(w, "NewKeys") =>
          /\ pc'[w] = "summary" => state = "Idle"
          /\ state # "Idle" =>
                /\ sent'.w = w /\ sent'.code = "FailedPrecondition"
                /\ ingress_pubkey' = ingress_pubkey]_vars

C10_Witness ==
    /\ sent.op = "NewKeys" /\ sent.code = "FailedPrecondition"
    /\ sent.cause = "precondition"
    /\ state = "Active"
    /\ ingress_pubkey = 1

\* C11: a NewKeys call that succeeds finds the node Idle and replaces the
\* stored ingress key with one different from the key stored just before it;
\* nothing but a successful NewKeys changes the key, and the summary a NewKeys
\* is answered with reports the key stored then, so that two NewKeys calls made
\* one after the other report two distinct keys.
C11_NewKeysDistinct ==
    [][/\ \A w \in Workers : Begins(w, "NewKeys") /\ pc'[w] = "summary" =>
             /\ state = "Idle"
             /\ ingress_pubkey' # ingress_pubkey
       /\ ingress_pubkey' # ingress_pubkey =>
             \E w \in Workers : Begins(w, "NewKeys") /\ pc'[w] = "summary"
       /\ sent'.op = "NewKeys" /\ sent'.code = "Ok" =>
             /\ sent'.summary[1].pubkey = ingress_pubkey'
             /\ sent'.summary[1].state = "Idle"]_vars

\* The second of two successive NewKeys answered: the key drawn first is gone.
C11_Witness ==
    /\ sent.op = "NewKeys" /\ sent.code = "Ok"
    /\ sent.summary[1].pubkey = 0
    /\ state = "Idle"

\* The failure of a collaborator: the recovery database, the enclave, the ledger.
CollaboratorFailures == {"storage", "enclave", "ledger"}

MutatingOps ==
    {"NewKeys", "SetPubkeyExpiryWindow", "SetPeers", "Activate", "Retire",
     "ReportMissedBlockRange"}

\* C12: a mutating request that is answered with the failure of a collaborator
\* (storage, enclave or ledger) changed nothing a caller can observe: the
\* step that sends the failure leaves the summary GetStatus returns and the
\* stored ranges GetMissedBlockRanges lists as they were, and so does the read
\* that is the only step of an Activate before its controller call.
C12_FailedMutationChangesNothing ==
    [][/\ sent'.op \in MutatingOps /\ sent'.cause \in CollaboratorFailures =>
             /\ get_ingest_summary' = get_ingest_summary
             /\ missed' = missed
       /\ \A w \in Workers : Begins(w, "Activate") =>
             get_ingest_summary' = get_ingest_summary /\ missed' = missed]_vars

C12_Witness ==
    /\ sent.op = "Activate" /\ sent.cause = "storage"
    /\ state = "Idle" /\ activation = <<>>
    /\ Len(missed) = 1

\* C13: the summary a successful mutating call is answered with is the
\* controller state right after that call's own mutation, whatever the other
\* workers do meanwhile: a successful Activate is answered with state Active,
\* a successful SetPeers(L) with the peer set L, and a successful
\* SetPubkeyExpiryWindow(w) with the window w.
C13_SummaryIsPostMutation ==
    [][/\ sent'.op = "Activate" /\ sent'.code = "Ok" =>
             sent'.summary[1].state = "Active"
       /\ sent'.op = "SetPeers" /\ sent'.code = "Ok" =>
             sent'.summary[1].peers = sent'.arg
       /\ sent'.op = "SetPubkeyExpiryWindow" /\ sent'.code = "Ok" =>
             sent'.summary[1].window = sent'.arg[1]]_vars

\* C14: every failure is answered in the class of its cause, whatever the
\* operation: a malformed peer address or an empty or inverted range is
\* InvalidArgument, an illegal lifecycle transition is FailedPrecondition, a
\* persistence failure is Internal, an unreadable ledger is Unavailable, and
\* none of these classes is used for another of these causes.
C14_OneClassPerCause ==
    [][sent'.code \notin {"none", "Ok"} /\ sent'.cause # "enclave" =>
          /\ sent'.cause \in {"parse", "range"} <=> sent'.code = "InvalidArgument"
          /\ sent'.cause = "precondition" <=> sent'.code = "FailedPrecondition"
          /\ sent'.cause = "storage" <=> sent'.code = "Internal"
          /\ sent'.cause = "ledger" <=> sent'.code = "Unavailable"]_vars

\* C15: SetPubkeyExpiryWindow(window) is served in every lifecycle state: it
\* fails only when storage fails, and then nothing changes; otherwise the
\* stored window becomes `window` while node state, key, peer set, activation
\* record and missed ranges stay as they were, and the summary it is answered
\* with (requests made one after the other) reports `window`.
C15_ExpiryWindowAnyState ==
    [][/\ \A w \in Workers : Begins(w, "SetPubkeyExpiryWindow") =>
             /\ state' = state
             /\ ingress_pubkey' = ingress_pubkey
             /\ peers' = peers
             /\ activation' = activation
             /\ missed' = missed
             /\ \/ /\ pc'[w] = "summary"
                   /\ pubkey_expiry_window' = Arg(w)[1]
                \/ /\ sent'.w = w /\ sent'.cause = "storage"
                   /\ pubkey_expiry_window' = pubkey_expiry_window
       /\ sent'.op = "SetPubkeyExpiryWindow" /\ sent'.code = "Ok" =>
             /\ sent'.summary[1].window = sent'.arg[1]
             /\ sent'.summary[1] = get_ingest_summary
             /\ sent'.summary[1] = get_ingest_summary']_vars

C15_Witness ==
    /\ sent.op = "SetPubkeyExpiryWindow" /\ sent.code = "Ok"
    /\ sent.arg = <<1>>
    /\ sent.summary[1].window = 1
    /\ sent.summary[1].state = "Retiring"
    /\ sent.summary[1].pubkey = 1

\* C16: a bip39 call whose phrase is not a valid English mnemonic fails,
\* leaves both output buffers byte for byte as the caller passed them, and puts
\* InvalidInput into the caller's error slot (when the caller passed one);
\* for a valid mnemonic mc_bip39_entropy_from_mnemonic returns the entropy's
\* length, 4 bytes for every 3 words, and writes the entropy to the front of
\* out_entropy when that is not null, and nothing anywhere when it is null.
C16_Bip39InvalidInput ==
    [][ret' # ret =>
          IF ~from_phrase(mnemonic).ok
          THEN /\ ~ret'.ok
               /\ out_entropy' = out_entropy
               /\ out_seed' = out_seed
               /\ ~out_error.null => out_error'.error = "InvalidInput"
          ELSE ret'.fn = "mc_bip39_entropy_from_mnemonic" =>
               /\ ret'.ok
               /\ ret'.len = (mnemonic.words * 4) \div 3
               /\ out_seed' = out_seed
               /\ out_entropy'.null = out_entropy.null
               /\ out_entropy.null => out_entropy' = out_entropy
               /\ ~out_entropy.null =>
                     /\ SubSeq(out_entropy'.bytes, 1, ret'.len) = entropy(mnemonic)
                     /\ \A i \in (ret'.len + 1)..Len(out_entropy.bytes) :
                           out_entropy'.bytes[i] = out_entropy.bytes[i]
                     /\ Len(out_entropy'.bytes) = Len(out_entropy.bytes)]_vars

C16_Witness ==
    /\ ret.fn = "mc_bip39_get_seed" /\ ~ret.ok
    /\ mnemonic.words = 12 /\ mnemonic.in_wordlist /\ ~mnemonic.checksum_ok
    /\ out_error.error = "InvalidInput"
    /\ out_seed = Buffer(SeedLen, 255)

\* C17: an Activate reads the ledger's block count once, when the request
\* comes in, and holds it until its controller call; a successful controller
\* call stores exactly that count as the one activation record; and once a
\* record is stored no step changes it, be it ledger growth, a Retire or a
\* failed Activate.
C17_ActivationRecordIsCountRead ==
    [][/\ \A w \in Workers :
             /\ Begins(w, "Activate") /\ pc'[w] = "activate" =>
                   num_blocks'[w] = ledger_blocks
             /\ pc[w] = "activate" /\ pc'[w] = "activate" =>
                   num_blocks'[w] = num_blocks[w]
             /\ CallsActivate(w) /\ pc'[w] = "summary" =>
                   activation = <<>> /\ activation' = <<num_blocks[w]>>
       /\ activation # <<>> => activation' = activation]_vars

C17_Witness ==
    /\ activation = <<0>>
    /\ ledger_blocks = 1
    /\ state = "Retiring"
    /\ sent.op = "Activate" /\ sent.code = "FailedPrecondition"

\* C18: once the node is Active or Retiring no step changes its ingress key,
\* and the step that leaves Idle does not change it either; a NewKeys whose
\* controller call comes after an Activate has committed is answered
\* FailedPrecondition, however the requests of the workers interleave; so every
\* GetStatus answered in Active or Retiring reports the key held at activation.
C18_KeyFrozenAfterIdle ==
    [][/\ state # "Idle" \/ state' # "Idle" => ingress_pubkey' = ingress_pubkey
       /\ \A w \in Workers : Begins(w, "NewKeys") /\ activation # <<>> =>
             sent'.w = w /\ sent'.code = "FailedPrecondition"
       /\ sent'.op = "GetStatus" => sent'.summary[1].pubkey = ingress_pubkey]_vars

\* A NewKeys served after the other worker's Activate has committed and
\* before that Activate is answered.
C18_Witness ==
    /\ sent.op = "NewKeys" /\ sent.code = "FailedPrecondition"
    /\ state = "Active" /\ ingress_pubkey = 1
    /\ \E w \in Workers : pc[w] = "summary" /\ req[w].op = "Activate"

\* C19: the ledger only grows and an Activate reads its block count before
\* the controller call, so the count a worker holds, and with it the height
\* recorded when the state becomes Active, is never greater than the ledger's
\* block count at that moment; and an Activate whose ledger read fails is
\* answered from its first step, in every lifecycle state: it never reaches
\* the controller call and the controller state stays as it was.
C19_ReadPrecedesCommit ==
    [][/\ ledger_blocks' >= ledger_blocks
       /\ \A w \in Workers :
             /\ pc'[w] = "activate" => num_blocks'[w] <= ledger_blocks'
             /\ CallsActivate(w) /\ state' # state =>
                   /\ state' = "Active"
                   /\ activation'[Len(activation')] <= ledger_blocks'
       /\ sent'.cause = "ledger" =>
             /\ Begins(sent'.w, "Activate")
             /\ ~CallsActivate(sent'.w)
             /\ UNCHANGED ctl]_vars

\* A block arrived between the read and the commit: the node has just become
\* Active at height 0 over a ledger of 1 block.
C19_Witness ==
    /\ state = "Active" /\ activation = <<0>> /\ ledger_blocks = 1
    /\ \E w \in Workers : pc[w] = "summary" /\ req[w].op = "Activate"

====
